---- MODULE Spec2Model ----
(***************************************************************************)
(* Uninformed graph searches of uninformedSearches.py: the Graph store,    *)
(* the search Node with its parent chain and cumulative cost, path         *)
(* reconstruction, and breadth-first, depth-first, depth-limited and       *)
(* iterative-deepening search.                                             *)
(*                                                                         *)
(* A name is a sequence of one-character strings.  A call's outcome is a   *)
(* record [kind, route, cost, text]: kind "path" for the string built by   *)
(* retrace_path (its identifiers and its total cost kept apart), "message" *)
(* for a descriptive string, "False" and "None" for the two falsy values   *)
(* recursive_dls returns, "KeyError" for an uncaught dictionary lookup on  *)
(* a missing key, "pending" while no call has returned.                    *)
(***************************************************************************)
EXTENDS Integers, Sequences, FiniteSets, TLC

\* ------------------------------------------------------------------ bounds

\* Calls of create_node / create_arc / create_edge made on the graph.
MaxBuild == 2
\* Largest depth limit handed to depth_limited_search.
MaxLimit == 3
\* Largest step size handed to iterative_deepening_search.
MaxStep == 2
\* Depth limit past which the (unbounded) loop of iterative_deepening_search
\* is no longer followed.
MaxDepth == 5

\* ------------------------------------------------------------------ names

LowerCase == <<"a", "b", "c", "g", "o", "x">>
UpperCase == <<"A", "B", "C", "G", "O", "X">>

IsLower(ch) == \E i \in 1..Len(LowerCase) : LowerCase[i] = ch
IsUpper(ch) == \E i \in 1..Len(UpperCase) : UpperCase[i] = ch
IsCased(ch) == IsLower(ch) \/ IsUpper(ch)

Upper(ch) ==
    IF IsLower(ch)
    THEN UpperCase[CHOOSE i \in 1..Len(LowerCase) : LowerCase[i] = ch]
    ELSE ch

Lower(ch) ==
    IF IsUpper(ch)
    THEN LowerCase[CHOOSE i \in 1..Len(UpperCase) : UpperCase[i] = ch]
    ELSE ch

\* str.title(): the first cased character of every word in upper case, the
\* other cased characters in lower case.
Title(s) ==
    [i \in 1..Len(s) |->
        IF i = 1 \/ ~IsCased(s[i - 1]) THEN Upper(s[i]) ELSE Lower(s[i])]

\* int(cost) of a decimal string, one digit per element.
RECURSIVE PyInt(_)
PyInt(ds) ==
    IF ds = <<>> THEN 0
    ELSE 10 * PyInt(SubSeq(ds, 1, Len(ds) - 1)) + ds[Len(ds)]

\* ------------------------------------------------------------------ Graph

EmptyDict == [k \in {} |-> <<>>]

Keys(dict) == DOMAIN dict

\* self.__graph_dict[key] = value
DictSet(dict, key, value) ==
    [k \in Keys(dict) \cup {key} |-> IF k = key THEN value ELSE dict[k]]

\* A str compared with a (str, int) tuple: never equal.
StrEqualsTuple(s, tup) == FALSE

\* `destination.title() not in self.__graph_dict[origin.title()]`
ListedIn(s, arcs) == \E i \in 1..Len(arcs) : StrEqualsTuple(s, arcs[i])

create_node(dict, nodeID) ==
    IF Title(nodeID) \notin Keys(dict)
    THEN DictSet(dict, Title(nodeID), <<>>)
    ELSE dict

create_arc(dict, origin, destination, cost) ==
    LET d1 == IF Title(origin) \notin Keys(dict)
              THEN create_node(dict, Title(origin))
              ELSE dict
    IN  IF ~ListedIn(Title(destination), d1[Title(origin)])
        THEN DictSet(d1, Title(origin),
                     Append(d1[Title(origin)], <<Title(destination), PyInt(cost)>>))
        ELSE d1

create_edge(dict, origin, destination, cost) ==
    LET d1 == IF origin \notin Keys(dict) THEN create_node(dict, origin) ELSE dict
        d2 == IF destination \notin Keys(d1) THEN create_node(d1, destination) ELSE d1
    IN  create_arc(create_arc(d2, origin, destination, cost),
                   destination, origin, cost)

\* list(self.__graph_dict.keys())
get_graph_nodes(dict) == Keys(dict)

\* deepcopy(self.__graph_dict)
get_graph_dict(dict) == dict

\* ------------------------------------------------------------------- Node

\* A parent reference is <<>> (None) or <<parent node>>.
NoParent == <<>>

get_total_cost(node) == node.total
get_node_identifier(node) == node.ident
get_parent(node) == node.parent

\* Node.__init__ that forgets the cost of the path to the parent.
NodeEdgeCostOnly(node_identifier, parent, edge_cost) ==
    [ident |-> node_identifier, parent |-> parent, total |-> edge_cost]

\* Node.__init__: the AttributeError of None.get_total_cost() is caught.
Node(node_identifier, parent, edge_cost) ==
    [ident  |-> node_identifier,
     parent |-> parent,
     total  |-> IF parent = NoParent
                THEN edge_cost
                ELSE get_total_cost(parent[1]) + edge_cost]

add_child_node(node, child_id) == Node(child_id[1], <<node>>, child_id[2])

\* ----------------------------------------------------------------- results

Outcome(kind, route, cost, text) ==
    [kind |-> kind, route |-> route, cost |-> cost, text |-> text]

Pending == Outcome("pending", <<>>, 0, "")
PyFalse == Outcome("False", <<>>, 0, "")
PyNone == Outcome("None", <<>>, 0, "")
Message(text) == Outcome("message", <<>>, 0, text)
KeyError(key) == Outcome("KeyError", <<key>>, 0, "KeyError")

SameCity == Message("Source and Destination cannot be same.")
NoSource == Message("Unable to find 'Source City' in the map.")
NoDestination == Message("Unable to find 'Destination City' in the map.")
NotFound == Message("Path not found")

\* A test `is not False` in place of the truth value.
TruthyUnlessFalse(r) == r.kind \in {"path", "message", "None"}

\* Truth value of a returned object: a non-empty string is true.
Truthy(r) == r.kind \in {"path", "message"}

\* Not the code: traced_route.append in place of insert(0, ...), the route
\* comes out from the destination back to the origin.
RECURSIVE TracedRouteAppended(_, _)
TracedRouteAppended(current, traced_route) ==
    IF current = NoParent THEN traced_route
    ELSE TracedRouteAppended(get_parent(current[1]),
                             traced_route \o <<get_node_identifier(current[1])>>)

RECURSIVE TracedRoute(_, _)
TracedRoute(current, traced_route) ==
    IF current = NoParent THEN traced_route
    ELSE TracedRoute(get_parent(current[1]),
                     <<get_node_identifier(current[1])>> \o traced_route)

\* Not the code: traced_route starts as [dest_node.get_node_identifier()]
\* and the loop inserts that identifier once more.
retrace_path_seeded(dest_node) ==
    Outcome("path",
            TracedRoute(<<dest_node>>, <<get_node_identifier(dest_node)>>),
            get_total_cost(dest_node), "")

retrace_path(dest_node) ==
    LET traced_route == TracedRoute(<<dest_node>>, <<>>)
    IN  IF traced_route # <<>>
        THEN Outcome("path", traced_route, get_total_cost(dest_node), "")
        ELSE Message("Path could not be retraced.")

\* ------------------------------------------------------ common validation

\* The checks with the graph lookups ahead of the comparison of the cities.
ValidationNodesFirst(dict, origin, destination) ==
    IF origin \notin get_graph_nodes(dict) THEN NoSource
    ELSE IF destination \notin get_graph_nodes(dict) THEN NoDestination
    ELSE IF origin = destination THEN SameCity
    ELSE PyNone

\* The checks with the destination looked up ahead of the origin.
ValidationDestinationFirst(dict, origin, destination) ==
    IF origin = destination THEN SameCity
    ELSE IF destination \notin get_graph_nodes(dict) THEN NoDestination
    ELSE IF origin \notin get_graph_nodes(dict) THEN NoSource
    ELSE PyNone

\* The checks every search makes before it builds its root: None when they
\* pass (origin and destination already in title case).
Validation(dict, origin, destination) ==
    IF origin = destination THEN SameCity
    ELSE IF origin \notin get_graph_nodes(dict) THEN NoSource
    ELSE IF destination \notin get_graph_nodes(dict) THEN NoDestination
    ELSE PyNone

\* dict(zip(graph_nodes, [False] * len(graph_nodes)))
AllUnvisited(dict) == [k \in get_graph_nodes(dict) |-> FALSE]

\* Not the code: the identifier is never marked.
MarkVisitedNever(visited, id) == visited

\* visited_nodes[current_node.get_node_identifier()] = True
MarkVisited(visited, id) == [visited EXCEPT ![id] = TRUE]

\* ------------------------------------------- breadth- and depth-first search

\* A Node instance compared with a str: Node defines no __eq__, never equal.
NodeEqualsStr(node, s) == FALSE

\* `child not in [city.get_node_identifier() for city in queue]`
NotInFrontier(child, frontier) ==
    ~\E i \in 1..Len(frontier) :
        NodeEqualsStr(child, get_node_identifier(frontier[i]))

\* The for loop over the children of current_node, from child i on, of both
\* breadth_first_search and depth_first_search (both append to the frontier).
\* out stays Pending when the loop runs to its end.
RECURSIVE ExpandChildren(_, _, _, _, _, _, _)
ExpandChildren(current_node, arcs, i, frontier, visited, destination, made) ==
    IF i > Len(arcs)
    THEN [frontier |-> frontier, out |-> Pending, made |-> made]
    ELSE LET child == add_child_node(current_node, arcs[i])
             id == get_node_identifier(child)
         IN  IF id = destination
             THEN [frontier |-> frontier, out |-> retrace_path(child),
                   made |-> made + 1]
             ELSE IF ~NotInFrontier(child, frontier)
             THEN ExpandChildren(current_node, arcs, i + 1, frontier, visited,
                                 destination, made + 1)
             ELSE IF id \notin DOMAIN visited
             THEN [frontier |-> frontier, out |-> KeyError(id), made |-> made + 1]
             ELSE IF ~visited[id]
             THEN ExpandChildren(current_node, arcs, i + 1,
                                 Append(frontier, child), visited,
                                 destination, made + 1)
             ELSE ExpandChildren(current_node, arcs, i + 1, frontier, visited,
                                 destination, made + 1)

\* Not the code: queue[0] read in place of queue.pop(0), the node stays.
PopFirstKept(queue) == [node |-> Head(queue), rest |-> queue]

\* Not the code: stack.pop(0), the oldest node of the stack is taken.
PopLastOldest(stack) == [node |-> Head(stack), rest |-> Tail(stack)]

\* queue.pop(0) and stack.pop(): the node taken and the frontier left.
PopFirst(queue) == [node |-> Head(queue), rest |-> Tail(queue)]
PopLast(stack) ==
    [node |-> stack[Len(stack)], rest |-> SubSeq(stack, 1, Len(stack) - 1)]

\* ----------------------------------------------------- depth-limited search

RECURSIVE recursive_dls(_, _, _, _)
RECURSIVE DLSChildren(_, _, _, _, _, _, _, _)

\* The for loop of recursive_dls from child i on, and what follows it.
DLSChildren(dict, current_node, destination, depth_limit, arcs, i, cutoff_occurred, made) ==
    IF i > Len(arcs)
    THEN [out |-> IF cutoff_occurred THEN PyFalse ELSE PyNone, made |-> made]
    ELSE LET child_node == add_child_node(current_node, arcs[i])
             r == recursive_dls(dict, child_node, destination, depth_limit - 1)
         IN  IF r.out.kind = "KeyError"
             THEN [out |-> r.out, made |-> made + 1 + r.made]
             ELSE IF ~Truthy(r.out)
             THEN DLSChildren(dict, current_node, destination, depth_limit,
                              arcs, i + 1, TRUE, made + 1 + r.made)
             ELSE [out |-> r.out, made |-> made + 1 + r.made]

recursive_dls(dict, current_node, destination, depth_limit) ==
    IF get_node_identifier(current_node) = destination
    THEN [out |-> retrace_path(current_node), made |-> 0]
    ELSE IF depth_limit = 0
    THEN [out |-> PyFalse, made |-> 0]
    ELSE IF get_node_identifier(current_node) \notin Keys(get_graph_dict(dict))
    THEN [out |-> KeyError(get_node_identifier(current_node)), made |-> 0]
    ELSE DLSChildren(dict, current_node, destination, depth_limit,
                     get_graph_dict(dict)[get_node_identifier(current_node)],
                     1, FALSE, 0)

\* depth_limited_search that lets the recursion go one level too deep.
depth_limited_search_one_deeper(dict, origin, destination, depth_limit) ==
    LET o == Title(origin)
        d == Title(destination)
        v == Validation(dict, o, d)
    IN  IF v # PyNone
        THEN [out |-> v, made |-> 0]
        ELSE LET r == recursive_dls(dict, Node(o, NoParent, 0), d,
                                    depth_limit + 1)
             IN  [out |-> r.out, made |-> r.made + 1]

\* Not the code: the limit grows by one more than the step size.
NextLimitSkipping(depth_limit, step_size) == depth_limit + step_size + 1

\* depth_limit += step_size
NextLimit(depth_limit, step_size) == depth_limit + step_size

\* out: what the call returns or raises; made: the Node objects it created.
depth_limited_search(dict, origin, destination, depth_limit) ==
    LET o == Title(origin)
        d == Title(destination)
        v == Validation(dict, o, d)
    IN  IF v # PyNone
        THEN [out |-> v, made |-> 0]
        ELSE LET r == recursive_dls(dict, Node(o, NoParent, 0), d, depth_limit)
             IN  [out |-> r.out, made |-> r.made + 1]

\* ------------------------------------------------------------------ inputs

\* Names as a caller or a route file spells them.
NodeInputs == { <<"c">>, <<"g", "O">> }
RouteInputs ==
    { << <<"a">>, <<"b">>, <<1>> >>,
      << <<"a">>, <<"G", "O">>, <<1, 0>> >>,
      << <<"A">>, <<"x">>, <<1>> >>,
      << <<"b">>, <<"g", "o">>, <<2>> >>,
      << <<"b">>, <<"a">>, <<3>> >>,
      << <<"a">>, <<"a">>, <<1>> >> }
OriginInputs == { <<"a">>, <<"c">> }
DestinationInputs == { <<"A">>, <<"b">>, <<"c">>, <<"G", "o">> }

\* Graph(): the empty dictionary; Graph(graph_dict): a predefined mapping,
\* here the chain A -> B -> C -> Go.
ChainDict ==
    [k \in { <<"A">>, <<"B">>, <<"C">>, <<"G", "o">> } |->
        IF k = <<"A">> THEN << <<<<"B">>, 1>> >>
        ELSE IF k = <<"B">> THEN << <<<<"C">>, 2>> >>
        ELSE IF k = <<"C">> THEN << <<<<"G", "o">>, 4>> >>
        ELSE <<>>]
InitialDicts == { EmptyDict, ChainDict }

\* ------------------------------------------------------------------- state

VARIABLES
    default_dict,   \* the dictionary object that is the default of Graph.__init__
    graph,          \* __graph_dict of the Graph the searches run on
    uses_default,   \* that Graph was built as Graph(): its dictionary is the default
    graph2,         \* __graph_dict of a second Graph, built as Graph()
    made2,          \* the second Graph has been constructed
    built,          \* create_* calls made on graph
    pc,             \* "build", "bfs", "dfs", "ids" (inside that loop), "done"
    algo,           \* the search called: "none", "bfs", "dfs", "dls", "ids"
    args,           \* origin and destination as passed to the search
    origin,         \* origin.title()
    destination,    \* destination.title()
    visited_nodes,
    expanded,       \* identifiers in the order their nodes were expanded
    queue,          \* frontier of breadth_first_search
    stack,          \* frontier of depth_first_search
    depth_limit,
    step_size,
    probes,         \* depth_limited_search calls made by the running search
    created,        \* Node objects created by the running search
    result          \* what the search returned or raised

\* The Graph objects and the dictionaries they hold.
graphVars == <<default_dict, graph, uses_default, graph2, made2, built>>

searchVars == <<pc, algo, args, origin, destination, visited_nodes, expanded,
                queue, stack, depth_limit, step_size, probes, created, result>>

vars == <<graphVars, searchVars>>

Init ==
    /\ default_dict = EmptyDict
    /\ graph \in InitialDicts
    /\ uses_default = (graph = EmptyDict)
    /\ graph2 = EmptyDict
    /\ made2 = FALSE
    /\ built = 0
    /\ pc = "build"
    /\ algo = "none"
    /\ args = <<>>
    /\ origin = <<>>
    /\ destination = <<>>
    /\ visited_nodes = EmptyDict
    /\ expanded = <<>>
    /\ queue = <<>>
    /\ stack = <<>>
    /\ depth_limit = 0
    /\ step_size = 0
    /\ probes = 0
    /\ created = 0
    /\ result = Pending

\* ------------------------------------------------------------ graph building

\* A create_* call has left the first Graph's dictionary as dict: every
\* Graph that holds the same dictionary object sees the change.
Mutate(dict) ==
    /\ graph' = dict
    /\ default_dict' = IF uses_default THEN dict ELSE default_dict
    /\ graph2' = IF uses_default /\ made2 THEN dict ELSE graph2
    /\ built' = built + 1
    /\ UNCHANGED <<uses_default, made2>>

CreateNode ==
    /\ pc = "build"
    /\ built < MaxBuild
    /\ \E n \in NodeInputs : Mutate(create_node(graph, n))
    /\ UNCHANGED searchVars

CreateArc ==
    /\ pc = "build"
    /\ built < MaxBuild
    /\ \E r \in RouteInputs : Mutate(create_arc(graph, r[1], r[2], r[3]))
    /\ UNCHANGED searchVars

CreateEdge ==
    /\ pc = "build"
    /\ built < MaxBuild
    /\ \E r \in RouteInputs : Mutate(create_edge(graph, r[1], r[2], r[3]))
    /\ UNCHANGED searchVars

\* Graph(): a second Graph, built without a dictionary, holds the default.
NewGraph ==
    /\ pc = "build"
    /\ ~made2
    /\ made2' = TRUE
    /\ graph2' = default_dict
    /\ UNCHANGED <<default_dict, graph, uses_default, built>>
    /\ UNCHANGED searchVars

\* ----------------------------------------------------------------- searches

\* A search returns (or raises) r.
Return(r) ==
    /\ result' = r
    /\ pc' = "done"

\* breadth_first_search up to its while loop.
CallBFS ==
    /\ pc = "build"
    /\ \E o \in OriginInputs, d \in DestinationInputs :
        LET v == Validation(graph, Title(o), Title(d))
        IN  /\ args' = <<o, d>>
            /\ origin' = Title(o)
            /\ destination' = Title(d)
            /\ algo' = "bfs"
            /\ IF v # PyNone
               THEN /\ Return(v)
                    /\ UNCHANGED <<visited_nodes, queue, created>>
               ELSE /\ pc' = "bfs"
                    /\ visited_nodes' = AllUnvisited(graph)
                    /\ queue' = <<Node(Title(o), NoParent, 0)>>
                    /\ created' = 1
                    /\ UNCHANGED result
    /\ UNCHANGED <<graphVars, expanded, stack, depth_limit, step_size, probes>>

\* One iteration of the while loop of breadth_first_search.
BFSIterate ==
    /\ pc = "bfs"
    /\ queue # <<>>
    /\ LET p == PopFirst(queue)
           current_node == p.node
           id == get_node_identifier(current_node)
       IN  IF visited_nodes[id]
           THEN /\ queue' = p.rest
                /\ UNCHANGED <<visited_nodes, expanded, created, result, pc>>
           ELSE LET e == ExpandChildren(current_node, get_graph_dict(graph)[id],
                                        1, p.rest, MarkVisited(visited_nodes, id),
                                        destination, 0)
                IN  /\ visited_nodes' = MarkVisited(visited_nodes, id)
                    /\ expanded' = Append(expanded, id)
                    /\ queue' = e.frontier
                    /\ created' = created + e.made
                    /\ IF e.out # Pending
                       THEN Return(e.out)
                       ELSE UNCHANGED <<result, pc>>
    /\ UNCHANGED <<graphVars, algo, args, origin, destination, stack,
                   depth_limit, step_size, probes>>

\* The while loop of breadth_first_search ends on an empty queue.
BFSExhausted ==
    /\ pc = "bfs"
    /\ queue = <<>>
    /\ Return(NotFound)
    /\ UNCHANGED <<graphVars, algo, args, origin, destination,
                   visited_nodes, expanded, queue, stack, depth_limit,
                   step_size, probes, created>>

\* depth_first_search up to its while loop.
CallDFS ==
    /\ pc = "build"
    /\ \E o \in OriginInputs, d \in DestinationInputs :
        LET v == Validation(graph, Title(o), Title(d))
        IN  /\ args' = <<o, d>>
            /\ origin' = Title(o)
            /\ destination' = Title(d)
            /\ algo' = "dfs"
            /\ IF v # PyNone
               THEN /\ Return(v)
                    /\ UNCHANGED <<visited_nodes, stack, created>>
               ELSE /\ pc' = "dfs"
                    /\ visited_nodes' = AllUnvisited(graph)
                    /\ stack' = <<Node(Title(o), NoParent, 0)>>
                    /\ created' = 1
                    /\ UNCHANGED result
    /\ UNCHANGED <<graphVars, expanded, queue, depth_limit, step_size, probes>>

\* One iteration of the while loop of depth_first_search.
DFSIterate ==
    /\ pc = "dfs"
    /\ stack # <<>>
    /\ LET p == PopLast(stack)
           current_node == p.node
           id == get_node_identifier(current_node)
       IN  IF visited_nodes[id]
           THEN /\ stack' = p.rest
                /\ UNCHANGED <<visited_nodes, expanded, created, result, pc>>
           ELSE LET e == ExpandChildren(current_node, get_graph_dict(graph)[id],
                                        1, p.rest, MarkVisited(visited_nodes, id),
                                        destination, 0)
                IN  /\ visited_nodes' = MarkVisited(visited_nodes, id)
                    /\ expanded' = Append(expanded, id)
                    /\ stack' = e.frontier
                    /\ created' = created + e.made
                    /\ IF e.out # Pending
                       THEN Return(e.out)
                       ELSE UNCHANGED <<result, pc>>
    /\ UNCHANGED <<graphVars, algo, args, origin, destination, queue,
                   depth_limit, step_size, probes>>

\* The while loop of depth_first_search ends on an empty stack.
DFSExhausted ==
    /\ pc = "dfs"
    /\ stack = <<>>
    /\ Return(NotFound)
    /\ UNCHANGED <<graphVars, algo, args, origin, destination,
                   visited_nodes, expanded, queue, stack, depth_limit,
                   step_size, probes, created>>

\* depth_limited_search, the whole call.
CallDLS ==
    /\ pc = "build"
    /\ \E o \in OriginInputs, d \in DestinationInputs, l \in 0..MaxLimit :
        LET r == depth_limited_search(graph, o, d, l)
        IN  /\ args' = <<o, d>>
            /\ origin' = Title(o)
            /\ destination' = Title(d)
            /\ depth_limit' = l
            /\ created' = r.made
            /\ Return(r.out)
    /\ algo' = "dls"
    /\ UNCHANGED <<graphVars, visited_nodes, expanded, queue, stack, step_size,
                   probes>>

\* iterative_deepening_search up to its while loop.
CallIDS ==
    /\ pc = "build"
    /\ \E o \in OriginInputs, d \in DestinationInputs, s \in 1..MaxStep :
        LET v == Validation(graph, Title(o), Title(d))
        IN  /\ args' = <<o, d>>
            /\ origin' = Title(o)
            /\ destination' = Title(d)
            /\ step_size' = s
            /\ IF v # PyNone
               THEN Return(v)
               ELSE /\ pc' = "ids"
                    /\ UNCHANGED result
    /\ algo' = "ids"
    /\ UNCHANGED <<graphVars, visited_nodes, expanded, queue, stack,
                   depth_limit, probes, created>>

\* One iteration of the while loop of iterative_deepening_search.  A
\* KeyError raised by the probe leaves the loop like a return.
IDSProbe ==
    /\ pc = "ids"
    /\ depth_limit <= MaxDepth
    /\ LET r == depth_limited_search(graph, origin, destination, depth_limit)
       IN  /\ probes' = probes + 1
           /\ created' = created + r.made
           /\ IF Truthy(r.out) \/ r.out.kind = "KeyError"
              THEN /\ Return(r.out)
                   /\ UNCHANGED depth_limit
              ELSE /\ depth_limit' = NextLimit(depth_limit, step_size)
                   /\ UNCHANGED <<result, pc>>
    /\ UNCHANGED <<graphVars, algo, args, origin, destination,
                   visited_nodes, expanded, queue, stack, step_size>>

Next ==
    \/ CreateNode
    \/ CreateArc
    \/ CreateEdge
    \/ NewGraph
    \/ CallBFS
    \/ BFSIterate
    \/ BFSExhausted
    \/ CallDFS
    \/ DFSIterate
    \/ DFSExhausted
    \/ CallDLS
    \/ CallIDS
    \/ IDSProbe

Spec == Init /\ [][Next]_vars

\* ------------------------------------------------- graph-theoretic yardsticks

\* Identifiers the adjacency list of n names (none when n has no entry).
Successors(dict, n) ==
    IF n \in Keys(dict) THEN { dict[n][i][1] : i \in 1..Len(dict[n]) } ELSE {}

AllIds(dict) == Keys(dict) \cup UNION { Successors(dict, n) : n \in Keys(dict) }

\* Identifiers some directed path of at most k edges leads to from o.
RECURSIVE Within(_, _, _)
Within(dict, o, k) ==
    IF k = 0 THEN {o}
    ELSE LET w == Within(dict, o, k - 1)
         IN  w \cup UNION { Successors(dict, n) : n \in w }

Reachable(dict, o, d) == d \in Within(dict, o, Cardinality(AllIds(dict)))

\* Fewest edges of a directed path from o to d (d reachable from o).
MinHops(dict, o, d) ==
    CHOOSE k \in 0..Cardinality(AllIds(dict)) :
        /\ d \in Within(dict, o, k)
        /\ \A j \in 0..(k - 1) : d \notin Within(dict, o, j)

\* Edges of the longest simple path that starts in n and avoids seen.
RECURSIVE LongestSimple(_, _, _)
LongestSimple(dict, n, seen) ==
    LET next == Successors(dict, n) \ seen
        lens == { 1 + LongestSimple(dict, s, seen \cup {s}) : s \in next }
    IN  IF next = {} THEN 0
        ELSE CHOOSE m \in lens : \A l \in lens : l <= m

\* Every neighbor identifier has an entry of its own.
Closed(dict) == AllIds(dict) = Keys(dict)

\* Costs of the listed arcs from u to v.
ArcCosts(dict, u, v) ==
    IF u \in Keys(dict)
    THEN { dict[u][i][2] : i \in { j \in 1..Len(dict[u]) : dict[u][j][1] = v } }
    ELSE {}

\* Sums of arc costs over every way of walking route from position i on.
RECURSIVE RouteCosts(_, _, _)
RouteCosts(dict, route, i) ==
    IF i >= Len(route) THEN {0}
    ELSE { c + t : c \in ArcCosts(dict, route[i], route[i + 1]),
                   t \in RouteCosts(dict, route, i + 1) }

Hops(r) == Len(r.route) - 1

\* The search passed its input checks: distinct cities, both in the graph.
ValidCall == origin # destination /\ {origin, destination} \subseteq Keys(graph)

Returned(a) == algo = a /\ pc = "done"

\* Equal but for the case of the letters.
SameIgnoringCase(x, y) ==
    Len(x) = Len(y) /\ \A i \in 1..Len(x) : Lower(x[i]) = Lower(y[i])

\* ------------------------------------------------------------------ claims

\* C1: whenever breadth_first_search was called with origin # destination,
\* both in the graph, and destination reachable from origin, it returns a
\* path, and that path has the fewest edges of all directed paths from
\* origin to destination.
C1_BFSReturnsFewestHops ==
    (Returned("bfs") /\ ValidCall /\ Reachable(graph, origin, destination))
        => /\ result.kind = "path"
           /\ Hops(result) = MinHops(graph, origin, destination)

\* The same on graphs in which every neighbor has an entry of its own, and
\* for whatever path breadth_first_search does return on any graph.
BFSFewestHopsOnClosedGraphs ==
    Closed(graph) => C1_BFSReturnsFewestHops
BFSPathHasFewestHops ==
    (Returned("bfs") /\ result.kind = "path")
        => Hops(result) = MinHops(graph, origin, destination)

\* C2: whenever one of the four searches returns a path, the total cost it
\* reports is the sum of the costs of arcs the graph lists between the
\* consecutive identifiers of the returned route (0 for the root alone).
C2_CostIsSumOfArcCosts ==
    (pc = "done" /\ result.kind = "path")
        => result.cost \in RouteCosts(graph, result.route, 1)

\* A depth-first search returned a route of three arcs or more whose arcs
\* have different costs.
C2_Witness ==
    /\ Returned("dfs")
    /\ result.kind = "path"
    /\ Hops(result) >= 3
    /\ result.cost > Hops(result)

SuccessLimits ==
    { d \in 0..MaxDepth :
        depth_limited_search(graph, origin, destination, d).out.kind = "path" }

FirstSuccessLimit == CHOOSE d \in SuccessLimits : \A e \in SuccessLimits : d <= e

\* C4: with step size 1, iterative_deepening_search returns exactly what
\* depth_limited_search returns at the smallest depth limit at which
\* depth_limited_search returns a path.
C4_IDSReturnsFirstDLSSuccess ==
    (Returned("ids") /\ step_size = 1 /\ SuccessLimits # {})
        => result = depth_limited_search(graph, origin, destination,
                                         FirstSuccessLimit).out

\* The same on graphs in which every neighbor has an entry of its own.
IDSReturnsFirstDLSSuccessOnClosedGraphs ==
    Closed(graph) => C4_IDSReturnsFirstDLSSuccess

\* What recursive_dls returns for a fresh node of each child of origin, at
\* the depth limit left for the children.
ChildOutcomes ==
    { recursive_dls(graph, Node(c, NoParent, 0), destination,
                    depth_limit - 1).out.kind : c \in Successors(graph, origin) }

\* C5: a call of recursive_dls on a non-goal node with depth left, all of
\* whose branches end without a path, returns cutoff (False) exactly when
\* some child call returned cutoff, and failure (None) otherwise.
C5_CutoffOnlyFromCutoff ==
    (Returned("dls") /\ ValidCall /\ depth_limit > 0
        /\ result.kind \in {"False", "None"})
        => /\ result.kind = "False" <=> "False" \in ChildOutcomes
           /\ result.kind = "None" <=> "False" \notin ChildOutcomes

\* A search has been called (and may still be running).
Called == algo # "none"

\* C6: whichever search is called, on whatever graph, with an origin and a
\* destination that are equal once put in title case, the call returns
\* "Source and Destination cannot be same." and has created no Node and run
\* no depth-limited probe.
C6_SameCityRejected ==
    (Called /\ SameIgnoringCase(args[1], args[2]))
        => /\ pc = "done"
           /\ result = SameCity
           /\ created = 0
           /\ probes = 0

\* The iterative-deepening search was called with "a" and "A" on a graph
\* that has no node A.
C6_Witness ==
    /\ Returned("ids")
    /\ args[1] # args[2]
    /\ SameIgnoringCase(args[1], args[2])
    /\ Title(args[1]) \notin Keys(graph)

\* C7: whichever search is called with origin # destination: when origin
\* is no node of the graph the call returns "Unable to find 'Source City'
\* in the map."; otherwise, when destination is no node of the graph, it
\* returns "Unable to find 'Destination City' in the map."; either way no
\* Node is created and no depth-limited probe is run.
C7_UnknownCityRejected ==
    (Called /\ ~SameIgnoringCase(args[1], args[2])
        /\ ~({origin, destination} \subseteq Keys(graph)))
        => /\ pc = "done"
           /\ result = IF origin \notin Keys(graph) THEN NoSource
                       ELSE NoDestination
           /\ created = 0
           /\ probes = 0

\* A depth-first search was called with neither city in a non-empty graph.
C7_Witness ==
    /\ Returned("dfs")
    /\ Keys(graph) # {}
    /\ origin \notin Keys(graph)
    /\ destination \notin Keys(graph)
    /\ origin # destination

\* C8: no search ends in an exception: a neighbor identifier without an
\* entry of its own is a dead end, and the search still returns a value.
C8_NoExceptionOnMissingEntry ==
    algo \in {"bfs", "dfs", "dls"} => result.kind # "KeyError"

\* C9: iterative_deepening_search, called with origin # destination, both
\* in the graph, and destination reachable from origin, ends only by
\* returning a path from origin to destination.
C9_IDSReturnsPathWhenReachable ==
    (Returned("ids") /\ ValidCall /\ Reachable(graph, origin, destination))
        => /\ result.kind = "path"
           /\ result.route[1] = origin
           /\ result.route[Len(result.route)] = destination

\* The same on graphs in which every neighbor has an entry of its own.
IDSReturnsPathOnClosedGraphs ==
    Closed(graph) => C9_IDSReturnsPathWhenReachable

\* C10: iterative_deepening_search with a destination that is in the graph
\* but unreachable has returned once a probe with a depth limit above the
\* longest simple path from origin has been made.
C10_IDSEndsPastLongestSimplePath ==
    (algo = "ids" /\ ValidCall /\ ~Reachable(graph, origin, destination)
        /\ depth_limit - step_size > LongestSimple(graph, origin, {origin}))
        => pc = "done"

\* C10 as the code has it: iterative_deepening_search with a destination
\* that is in the graph but unreachable never returns a value, however far
\* the depth limit is past the longest simple path: every probe ends with
\* False or None and the depth limit grows by the step size (the call can
\* end only with the KeyError of a neighbor that has no entry).
C10_IDSNeverReturnsWhenUnreachable ==
    (algo = "ids" /\ ValidCall /\ ~Reachable(graph, origin, destination))
        => /\ result.kind \in {"pending", "KeyError"}
           /\ pc = "ids" => depth_limit = probes * step_size
           /\ result.kind = "KeyError" => ~Closed(graph)

\* The search is still probing on an acyclic graph after a probe with a
\* depth limit above the longest simple path from origin.
C10_Witness ==
    /\ algo = "ids"
    /\ pc = "ids"
    /\ ValidCall
    /\ ~Reachable(graph, origin, destination)
    /\ graph = ChainDict
    /\ depth_limit - step_size > LongestSimple(graph, origin, {origin})

\* On a graph in which every neighbor has an entry of its own, a valid
\* iterative-deepening call with a reachable destination is not running any
\* more once it has probed a depth limit that reaches the destination.
IDSStopsAtReachOnClosedGraphs ==
    (algo = "ids" /\ pc = "ids" /\ ValidCall /\ Closed(graph)
        /\ Reachable(graph, origin, destination))
        => depth_limit - step_size < MinHops(graph, origin, destination)

\* ------------------------------------------------------------ later claims

\* The four descriptive failure strings of the search functions.
FailureStrings == {SameCity, NoSource, NoDestination, NotFound}

\* C11: every value returned by any of the four search functions is a path
\* result or one of the four descriptive failure strings; in particular
\* depth_limited_search reports an exhausted or cut-off search as such a
\* string.  (A call that raises returns no value and is left out.)
C11_ReturnsPathOrFailureString ==
    (pc = "done" /\ result.kind # "KeyError")
        => (result.kind = "path" \/ result \in FailureStrings)

\* What BFS, DFS and IDS return is a path or one of the strings; the values
\* outside the two are the False and None of depth_limited_search.
OnlyDLSReturnsFalseOrNone ==
    (pc = "done" /\ result.kind # "KeyError" /\ algo # "dls")
        => (result.kind = "path" \/ result \in FailureStrings)

\* C12: a Graph built without a dictionary starts with a fresh, empty
\* mapping: whatever create_* calls were made on other Graphs, a newly built
\* Graph() has no nodes, and changing one Graph built that way never changes
\* the nodes or arcs of another.  No call is ever made on the second Graph,
\* so it should stay empty.
C12_DefaultGraphIsFresh == made2 => graph2 = EmptyDict

\* A Graph built on a dictionary of its own shares nothing with Graph().
GivenDictIsNotShared == (made2 /\ ~uses_default) => graph2 = EmptyDict

\* Two Graphs built as Graph() hold one dictionary.
DefaultGraphsShareOneDict == (made2 /\ uses_default) => graph2 = graph

\* The while loops of breadth_first_search and depth_first_search keep
\* running: a loop that can take its next iteration, or leave, does.
FairSpec ==
    /\ Spec
    /\ WF_vars(BFSIterate \/ BFSExhausted)
    /\ WF_vars(DFSIterate \/ DFSExhausted)

\* The sequence holds no element twice.
NoRepeats(seq) == \A i, j \in 1..Len(seq) : seq[i] = seq[j] => i = j

InFrontierLoop == pc \in {"bfs", "dfs"}

\* breadth_first_search or depth_first_search has left its loop with a path
\* (the goal was generated) or with 'Path not found' (the frontier emptied).
FrontierLoopEnded ==
    /\ pc = "done"
    /\ result.kind = "path" \/ (result = NotFound /\ queue = <<>> /\ stack = <<>>)

\* C13: on a graph in which every neighbor is itself a node, and for valid
\* origin # destination, breadth_first_search and depth_first_search
\* terminate: the frontier becomes empty or the goal is generated, after at
\* most one expansion per node identifier.
C13_FrontierSearchTerminates ==
    /\ [](Closed(graph) /\ algo \in {"bfs", "dfs"}
            => NoRepeats(expanded) /\ Len(expanded) <= Cardinality(Keys(graph)))
    /\ (InFrontierLoop /\ Closed(graph)) ~> FrontierLoopEnded

\* A search on a graph with a cycle has expanded every node and emptied its
\* frontier.
C13_Witness ==
    /\ algo \in {"bfs", "dfs"}
    /\ pc = "done"
    /\ Closed(graph)
    /\ result = NotFound
    /\ Len(expanded) >= 2
    /\ \E i \in 1..Len(expanded) : origin \in Successors(graph, expanded[i])

FrontierSearchEnded == algo \in {"bfs", "dfs"} /\ pc = "done" /\ ValidCall

\* C14: for every graph and valid origin # destination, breadth_first_search
\* and depth_first_search return a path if and only if the destination is
\* reachable from the origin, and return 'Path not found' exactly when it is
\* not (the frontier has emptied).
C14_PathIffReachable ==
    FrontierSearchEnded =>
        /\ result.kind = "path" <=> Reachable(graph, origin, destination)
        /\ result = NotFound <=> ~Reachable(graph, origin, destination)

\* The same holds of every call that returns a value, and so on every graph
\* in which each neighbor has an entry of its own.
PathIffReachableWhenReturned ==
    (FrontierSearchEnded /\ result.kind # "KeyError") =>
        /\ result.kind = "path" <=> Reachable(graph, origin, destination)
        /\ result = NotFound <=> ~Reachable(graph, origin, destination)
        /\ result = NotFound => queue = <<>> /\ stack = <<>>

PathIffReachableOnClosedGraphs ==
    (FrontierSearchEnded /\ Closed(graph)) =>
        /\ result.kind = "path" <=> Reachable(graph, origin, destination)
        /\ result = NotFound <=> ~Reachable(graph, origin, destination)

\* The identifiers of the nodes of a frontier, in order.
FrontierIds(frontier) ==
    [i \in 1..Len(frontier) |-> get_node_identifier(frontier[i])]

\* C15: in breadth_first_search and depth_first_search a generated non-goal
\* child joins the frontier only if its identifier is not visited and no node
\* with that identifier is in the frontier; hence at every step the frontier
\* holds at most one node per identifier.
C15_FrontierHoldsOneNodePerIdentifier ==
    algo \in {"bfs", "dfs"} =>
        NoRepeats(FrontierIds(queue)) /\ NoRepeats(FrontierIds(stack))

\* The half of the test that works: no step adds a node whose identifier is
\* visited once the step is taken.
VisitedNeverJoinsFrontier ==
    [][(InFrontierLoop /\ pc' = pc) =>
        LET old == IF pc = "bfs" THEN queue ELSE stack
            new == IF pc = "bfs" THEN queue' ELSE stack'
            kept == Len(old) - 1
        IN  \A i \in 1..Len(new) :
                (i > kept) => ~visited_nodes'[get_node_identifier(new[i])]]_vars

\* The node the next iteration removes from the frontier.
NextPopped == IF pc = "bfs" THEN Head(queue) ELSE stack[Len(stack)]

\* C16: in one breadth_first_search or depth_first_search call each node
\* identifier is expanded at most once, and an identifier is marked visited
\* only when a node carrying it is removed from the frontier for expansion,
\* never when it is enqueued: the visited identifiers are the expanded ones,
\* and a step marks none but that of the node it removes.
C16_ExpandedOnceMarkedAtExpansion ==
    /\ [](algo \in {"bfs", "dfs"} =>
            /\ NoRepeats(expanded)
            /\ \A k \in DOMAIN visited_nodes :
                 visited_nodes[k] <=> \E i \in 1..Len(expanded) : expanded[i] = k)
    /\ [][InFrontierLoop =>
            \A k \in DOMAIN visited_nodes :
                (visited_nodes'[k] /\ ~visited_nodes[k]) =>
                    /\ k = get_node_identifier(NextPopped)
                    /\ expanded' = Append(expanded, k)]_vars

\* A node whose identifier was expanded before waits in the frontier, to be
\* removed without a second expansion.
C16_Witness ==
    /\ InFrontierLoop
    /\ Len(expanded) >= 2
    /\ \E i \in 1..Len(queue) : visited_nodes[get_node_identifier(queue[i])]

\* The children of a node with adjacency list arcs that depth_first_search
\* is to push when it expands the node: those that are not the goal and not
\* visited once the node itself is marked, in listed order.
RECURSIVE PushedIds(_, _, _, _)
PushedIds(arcs, i, seen, goal) ==
    IF i > Len(arcs) THEN <<>>
    ELSE IF arcs[i][1] # goal /\ arcs[i][1] \notin seen
         THEN <<arcs[i][1]>> \o PushedIds(arcs, i + 1, seen, goal)
         ELSE PushedIds(arcs, i + 1, seen, goal)

VisitedIds == { k \in DOMAIN visited_nodes : visited_nodes[k] }

\* C17: the frontier of depth_first_search is last-in-first-out.  The node
\* expanded next is the one pushed most recently; the children of an expanded
\* node are pushed on top of the rest of the stack in the order the graph
\* lists them, so that the last-listed child is on top and, unless visited,
\* is the next node expanded.
C17_DFSFrontierIsLIFO ==
    [][(pc = "dfs" /\ pc' = "dfs" /\ stack # <<>>) =>
        LET top == stack[Len(stack)]
            id == get_node_identifier(top)
            rest == SubSeq(stack, 1, Len(stack) - 1)
            pushed == PushedIds(graph[id], 1, VisitedIds \cup {id}, destination)
        IN  IF visited_nodes[id]
            THEN stack' = rest /\ expanded' = expanded
            ELSE /\ expanded' = Append(expanded, id)
                 /\ Len(stack') = Len(rest) + Len(pushed)
                 /\ SubSeq(stack', 1, Len(rest)) = rest
                 /\ \A j \in 1..Len(pushed) :
                      /\ get_node_identifier(stack'[Len(rest) + j]) = pushed[j]
                      /\ get_parent(stack'[Len(rest) + j]) = <<top>>]_vars

\* depth_first_search has expanded a node that was pushed after, and lay
\* above, a sibling still waiting in the stack.
C17_Witness ==
    /\ pc = "dfs"
    /\ Len(expanded) >= 2
    /\ \E i \in 1..Len(stack) :
        /\ get_parent(stack[i]) # NoParent
        /\ LET parent == get_node_identifier(get_parent(stack[i])[1])
               arcs == graph[parent]
           IN  \E a, b \in 1..Len(arcs) :
                  /\ a < b
                  /\ arcs[a][1] = get_node_identifier(stack[i])
                  /\ arcs[b][1] = expanded[Len(expanded)]
                  /\ arcs[a][1] # arcs[b][1]

\* C18: whenever any of the four searches returns a path, the route starts
\* with the origin in title case, ends with the destination in title case,
\* and each identifier is followed by one that the graph lists in its
\* adjacency list.
C18_RouteRunsFromOriginToDestinationAlongArcs ==
    (pc = "done" /\ result.kind = "path") =>
        LET route == result.route
        IN  /\ route # <<>>
            /\ route[1] = Title(args[1])
            /\ route[Len(route)] = Title(args[2])
            /\ \A i \in 1..(Len(route) - 1) :
                 route[i + 1] \in Successors(graph, route[i])

\* An iterative deepening search called with cities in another case than
\* the graph has them returned a route of two arcs or more.
C18_Witness ==
    /\ Returned("ids")
    /\ result.kind = "path"
    /\ Hops(result) >= 2
    /\ args[2] # result.route[Len(result.route)]

\* C19: every path returned by breadth_first_search or depth_first_search is
\* simple, no identifier occurs twice in it; depth_limited_search, which has
\* no visited set, gives no such guarantee.
C19_FrontierSearchPathsAreSimple ==
    (algo \in {"bfs", "dfs"} /\ pc = "done" /\ result.kind = "path")
        => NoRepeats(result.route)

\* A breadth-first or depth-first search returned a path through a node that
\* lies on a cycle: an arc leads from it back to a node earlier in the path.
C19_Witness ==
    /\ algo \in {"bfs", "dfs"}
    /\ pc = "done"
    /\ result.kind = "path"
    /\ \E i, j \in 1..Len(result.route) :
        i <= j /\ result.route[i] \in Successors(graph, result.route[j])

\* depth_limited_search has returned a path that passes twice through one
\* identifier.
DLSReturnedPathWithRepeat ==
    Returned("dls") /\ result.kind = "path" /\ ~NoRepeats(result.route)

\* iterative_deepening_search has returned such a path.
IDSReturnedPathWithRepeat ==
    Returned("ids") /\ result.kind = "path" /\ ~NoRepeats(result.route)

\* C20: with step size 1, whenever iterative_deepening_search returns a path
\* it is one of the fewest edges from origin to destination, the hop count
\* of a breadth-first path.
C20_IDSStepOnePathHasFewestHops ==
    (Returned("ids") /\ step_size = 1 /\ result.kind = "path")
        => Hops(result) = MinHops(graph, origin, destination)

\* iterative_deepening_search with step size 1 returned a path where a
\* depth-limited search allowed one more edge returns a longer one.
C20_Witness ==
    /\ Returned("ids")
    /\ step_size = 1
    /\ result.kind = "path"
    /\ LET deeper == depth_limited_search(graph, args[1], args[2],
                                          Hops(result) + 1).out
       IN  deeper.kind = "path" /\ Hops(deeper) > Hops(result)

\* With a larger step the first successful probe can pass the fewest edges.
IDSWiderStepReturnedLongerPath ==
    /\ Returned("ids")
    /\ result.kind = "path"
    /\ Hops(result) > MinHops(graph, origin, destination)

====
